---- MODULE Spec2Model ----
(***************************************************************************)
(* Model of src/app.py: the Streamlit script that scrapes the sold         *)
(* listings of eBay.ca and eBay.com (get_ebay_data) and aggregates their   *)
(* prices (concat, drop_duplicates, groupby, median/mean/min/max).         *)
(*                                                                         *)
(* Text is modelled as a sequence of symbols.  A price text is a sequence  *)
(* of single characters; a title, a date or a search term is a sequence of *)
(* tokens, each token an indivisible piece of text, so that "x in text"    *)
(* is membership of a token.  A float is a record: either NaN or a finite  *)
(* number held exactly, in units of 1/Scale.  Means and medians are held   *)
(* as exact fractions num/den; binary rounding of floats is not modelled.  *)
(***************************************************************************)
EXTENDS Integers, Sequences, FiniteSets, TLC

\* ------------------------------------------------------------------ bounds

\* Longest price text enumerated by SpecPrice.
MaxPriceLen == 4

\* Most listing containers on one results page.
MaxItems == 2

\* ------------------------------------------------------- python str methods

IsSpace(c) == c = " "

RECURSIVE LStrip(_)
LStrip(s) ==
    IF s # <<>> /\ IsSpace(Head(s)) THEN LStrip(Tail(s)) ELSE s

RECURSIVE RStrip(_)
RStrip(s) ==
    IF s # <<>> /\ IsSpace(s[Len(s)]) THEN RStrip(SubSeq(s, 1, Len(s) - 1)) ELSE s

\* str.strip(): leading and trailing whitespace removed.
StrStrip(s) == RStrip(LStrip(s))

\* str.replace(old, ""): every occurrence of the one-symbol text old removed.
StrRemove(s, old) == SelectSeq(s, LAMBDA c : c # old)

\* str.replace(old, new) for one-symbol texts.
StrReplace(s, old, new) == [i \in 1..Len(s) |-> IF s[i] = old THEN new ELSE s[i]]

\* The first whitespace-free run of s, s not starting with whitespace.
RECURSIVE TakeWord(_)
TakeWord(s) ==
    IF s = <<>> \/ IsSpace(Head(s)) THEN <<>> ELSE <<Head(s)>> \o TakeWord(Tail(s))

\* str.split(): the maximal whitespace-free runs, in order; none for a text
\* that is empty or all whitespace.
RECURSIVE StrSplit(_)
StrSplit(s) ==
    LET t == LStrip(s)
        w == TakeWord(t)
    IN  IF t = <<>> THEN <<>>
        ELSE <<w>> \o StrSplit(SubSeq(t, Len(w) + 1, Len(t)))

\* "needle in text" for a needle that is one token of the text.
Contains(text, needle) == \E i \in 1..Len(text) : text[i] = needle

\* ------------------------------------------------------------------ floats

RECURSIVE Pow10(_)
Pow10(n) == IF n = 0 THEN 1 ELSE 10 * Pow10(n - 1)

\* A finite float n/Scale is held as the integer n.  A numeral of a price
\* text of MaxPriceLen characters has at most MaxPriceLen - 1 decimals, so
\* every number parsed here is held exactly.
Scale == Pow10(MaxPriceLen - 1)

NaN == [nan |-> TRUE, v |-> 0]
Num(n) == [nan |-> FALSE, v |-> n]

Digits == {"0", "1", "2", "3", "4", "5", "6", "7", "8", "9"}

DigitVal(c) ==
    CASE c = "0" -> 0 [] c = "1" -> 1 [] c = "2" -> 2 [] c = "3" -> 3
      [] c = "4" -> 4 [] c = "5" -> 5 [] c = "6" -> 6 [] c = "7" -> 7
      [] c = "8" -> 8 [] c = "9" -> 9

AllDigits(s) == \A i \in 1..Len(s) : s[i] \in Digits

RECURSIVE IntOf(_)
IntOf(s) == IF s = <<>> THEN 0 ELSE 10 * IntOf(SubSeq(s, 1, Len(s) - 1)) + DigitVal(s[Len(s)])

\* The value of the numeral whole "." frac, in units of 1/Scale.
DecimalValue(whole, frac) ==
    IntOf(whole) * Scale + (IntOf(frac) * Scale) \div Pow10(Len(frac))

\* float(tok) for a token over digits, ".", "n" and "a": a decimal numeral
\* (digits with at most one point and at least one digit) or "nan"; anything
\* else is a ValueError.  Signs, exponents, underscores, "inf" and upper
\* case are outside the alphabet of the price texts enumerated here.
PyFloat(tok) ==
    LET dots == {i \in 1..Len(tok) : tok[i] = "."}
        d == CHOOSE i \in dots : TRUE
        whole == SubSeq(tok, 1, d - 1)
        frac == SubSeq(tok, d + 1, Len(tok))
    IN  IF tok = <<"n", "a", "n">> THEN [ok |-> TRUE, val |-> NaN]
        ELSE IF dots = {} THEN
            IF tok # <<>> /\ AllDigits(tok)
            THEN [ok |-> TRUE, val |-> Num(IntOf(tok) * Scale)]
            ELSE [ok |-> FALSE, val |-> NaN]
        ELSE IF Cardinality(dots) = 1 /\ AllDigits(whole) /\ AllDigits(frac)
                /\ Len(whole) + Len(frac) > 0
            THEN [ok |-> TRUE, val |-> Num(DecimalValue(whole, frac))]
            ELSE [ok |-> FALSE, val |-> NaN]

\* PriceTokens with the group separators left in the text.
PriceTokensKeepComma(text) == StrSplit(StrRemove(StrStrip(text), "$"))

\* price_elem.text.strip().replace("$", "").replace(",", "").split()
PriceTokens(text) == StrSplit(StrRemove(StrRemove(StrStrip(text), "$"), ","))

\* ------------------------------------------------------------ results page

\* One <li class="s-item"> of a results page.  Each field lists the elements
\* a selector matches inside the container (none, or one): title, price and
\* date elements by their text, the link element by its attributes.
TitleA == <<"A">>
TitleLower == <<"a">>
TitlePadded == <<" ", "A", " ">>
TitleShop == <<"Shop on eBay">>
TitleNew == <<"New Listing", "A">>
DateD == <<"Sold Jan 1">>
NoDate == <<"N/A">>

Item(t, p, l, e, d) ==
    [title |-> t, price |-> p, link |-> l, ended |-> e, listing |-> d]

Href(u) == <<[href |-> <<u>>]>>
NoHref == <<[href |-> <<>>]>>

P10 == <<"$", "1", "0">>
P50 == <<"$", "5", "0", ".", "0">>
PNaN == <<"n", "a", "n">>
PBare == <<"$">>
PWord == <<"n", "a">>

\* The containers the pages of Spec are made of: two listings with one key
\* and different links, listings of other prices and titles, one whose price
\* text reads "nan" and one whose price text is a bare "$".
Containers ==
    { Item(<<TitleA>>, <<P10>>, Href("L1"), <<DateD>>, <<>>),
      Item(<<TitlePadded>>, <<P10>>, Href("L2"), <<>>, <<DateD>>),
      Item(<<TitleA>>, <<P50>>, Href("L1"), <<DateD>>, <<>>),
      Item(<<TitleLower>>, <<P50>>, Href("L1"), <<>>, <<>>),
      Item(<<TitleA>>, <<PNaN>>, Href("L1"), <<DateD>>, <<>>),
      Item(<<TitleA>>, <<PBare>>, Href("L1"), <<DateD>>, <<>>) }

\* The containers the pages of SpecPage are made of: those of Spec, and
\* containers that lack an element, hold a placeholder title, an unparseable
\* price text or a link without href.
PageContainers ==
    Containers \cup
    { Item(<<TitleA>>, <<PWord>>, Href("L1"), <<DateD>>, <<>>),
      Item(<<TitleShop>>, <<P10>>, Href("L1"), <<>>, <<>>),
      Item(<<TitleNew>>, <<P10>>, Href("L1"), <<DateD>>, <<>>),
      Item(<<>>, <<P10>>, Href("L1"), <<DateD>>, <<>>),
      Item(<<TitleA>>, <<>>, Href("L1"), <<DateD>>, <<>>),
      Item(<<TitleA>>, <<P10>>, <<>>, <<DateD>>, <<>>),
      Item(<<TitleA>>, <<P10>>, NoHref, <<DateD>>, <<>>) }

\* The sequences over S of length at most n.
SeqsUpTo(S, n) == UNION {[1..k -> S] : k \in 0..n}

\* What one HTTP GET can end in: a page, or a failure of one of three kinds.
Failures == {"conn_error", "timeout", "http_error"}

Page(items) == [status |-> "ok", items |-> items]
Failed(kind) == [status |-> kind, items |-> <<>>]

Responses(C) == {Page(p) : p \in SeqsUpTo(C, MaxItems)} \cup {Failed(k) : k \in Failures}

\* -------------------------------------------------------------- DataFrame

\* A DataFrame: its column labels and its rows, in order.
Columns == <<"Title", "Price (CAD)", "Link", "Date">>

DataFrame(data) ==
    [columns |-> IF data = <<>> THEN <<>> ELSE Columns, rows |-> data]

EmptyWithColumns == [columns |-> Columns, rows |-> <<>>]

\* DataFrame.empty: an axis of length 0.
IsEmpty(df) == Len(df.columns) = 0 \/ Len(df.rows) = 0

Row(t, p, l, d) == [Title |-> t, Price |-> p, Link |-> l, Date |-> d]

\* ---------------------------------------------------------- get_ebay_data

\* The skip condition of one container.
Skipped(item) ==
    \/ item.title = <<>>
    \/ item.price = <<>>
    \/ item.link = <<>>
    \/ Contains(item.title[1], "Shop on eBay")
    \/ Contains(item.title[1], "New Listing")

\* date_elem: the ended-date element, else the listingDate element.
DateElem(item) == IF item.ended # <<>> THEN item.ended ELSE item.listing

\* The loop over the containers from the i-th on, data being the records
\* appended so far: its list of records, or the exception that leaves it.
RECURSIVE ParseItems(_, _, _)
ParseItems(items, i, data) ==
    IF i > Len(items) THEN [raised |-> "none", data |-> data]
    ELSE LET item == items[i]
             toks == PriceTokens(item.price[1])
             f == PyFloat(toks[1])
             date == DateElem(item)
         IN  IF Skipped(item) THEN ParseItems(items, i + 1, data)
             ELSE IF toks = <<>> THEN [raised |-> "IndexError", data |-> data]
             ELSE IF ~f.ok THEN ParseItems(items, i + 1, data)
             ELSE IF item.link[1].href = <<>> THEN [raised |-> "KeyError", data |-> data]
             ELSE ParseItems(items, i + 1,
                     Append(data, Row(StrStrip(item.title[1]), f.val, item.link[1].href[1],
                                      IF date # <<>> THEN StrStrip(date[1]) ELSE NoDate)))

\* GetEbayData without the try/except around the GET: a failure of the GET
\* is raised to the caller.
GetEbayDataNoCatch(resp) ==
    IF resp.status # "ok" THEN [raised |-> "RequestException", df |-> [columns |-> <<>>, rows |-> <<>>]]
    ELSE LET r == ParseItems(resp.items, 1, <<>>)
         IN  [raised |-> r.raised, df |-> DataFrame(r.data)]

\* get_ebay_data on the response of its GET: the DataFrame returned, or the
\* exception raised to the caller.
GetEbayData(resp) ==
    IF resp.status # "ok" THEN [raised |-> "none", df |-> EmptyWithColumns]
    ELSE LET r == ParseItems(resp.items, 1, <<>>)
         IN  [raised |-> r.raised, df |-> DataFrame(r.data)]

\* The URL of the GET: the host's domain and the _nkw parameter.
BaseUrl(search_term, domain) ==
    [domain |-> domain, nkw |-> StrReplace(search_term, " ", "+")]

\* ------------------------------------------------------------ aggregation

\* PdConcat that yields the first frame alone when it is empty.
PdConcatFirstIfEmpty(a, b) ==
    IF IsEmpty(a) THEN a
    ELSE [columns |-> a.columns \o SelectSeq(b.columns, LAMBDA c : ~Contains(a.columns, c)),
          rows |-> a.rows \o b.rows]

\* pd.concat([a, b], ignore_index=True): the rows of a, then those of b; the
\* columns of a, then those of b that a lacks.
PdConcat(a, b) ==
    [columns |-> a.columns \o SelectSeq(b.columns, LAMBDA c : ~Contains(a.columns, c)),
     rows |-> a.rows \o b.rows]

\* Key over every column, as drop_duplicates() without a subset.
KeyAllColumns(r) == <<r.Title, r.Price, r.Link, r.Date>>

\* The subset of drop_duplicates.
Key(r) == <<r.Title, r.Price, r.Date>>

\* drop_duplicates(subset=[Title, Price, Date]), keep="first": a row stays
\* unless an earlier row has its key.  NaN prices count as equal.
RECURSIVE DropRows(_, _)
DropRows(rows, seen) ==
    IF rows = <<>> THEN <<>>
    ELSE IF Key(Head(rows)) \in seen THEN DropRows(Tail(rows), seen)
    ELSE <<Head(rows)>> \o DropRows(Tail(rows), seen \cup {Key(Head(rows))})

DropDuplicates(df) == [columns |-> df.columns, rows |-> DropRows(df.rows, {})]

\* Lines 86-90: concat, then drop_duplicates unless the frame is empty.
Combine(a, b) ==
    LET c == PdConcat(a, b)
    IN  IF ~IsEmpty(c) THEN DropDuplicates(c) ELSE c

\* A statistic: NaN, or the exact fraction num/den.
StatNaN == [nan |-> TRUE, num |-> 0, den |-> 1]
Stat(n, d) == [nan |-> FALSE, num |-> n, den |-> d]

\* The values of a price column that are not NaN (pandas skips NaN).
NotNa(prices) == SelectSeq(prices, LAMBDA p : ~p.nan)

Values(prices) == [i \in 1..Len(NotNa(prices)) |-> NotNa(prices)[i].v]

RECURSIVE SumSeq(_)
SumSeq(s) == IF s = <<>> THEN 0 ELSE Head(s) + SumSeq(Tail(s))

\* Series.count(): the number of values that are not NaN.
PdCount(prices) == Len(Values(prices))

PdMean(prices) ==
    LET v == Values(prices)
    IN  IF v = <<>> THEN StatNaN ELSE Stat(SumSeq(v), Len(v))

PdMin(prices) ==
    LET v == Values(prices)
    IN  IF v = <<>> THEN StatNaN
        ELSE Stat(CHOOSE x \in {v[i] : i \in 1..Len(v)} : \A j \in 1..Len(v) : x <= v[j], 1)

PdMax(prices) ==
    LET v == Values(prices)
    IN  IF v = <<>> THEN StatNaN
        ELSE Stat(CHOOSE x \in {v[i] : i \in 1..Len(v)} : \A j \in 1..Len(v) : x >= v[j], 1)

\* Series.median(): of the sorted values that are not NaN, the middle one,
\* or the mean of the two middle ones.
PdMedian(prices) ==
    LET v == SortSeq(Values(prices), LAMBDA a, b : a < b)
        n == Len(v)
    IN  IF n = 0 THEN StatNaN
        ELSE IF n % 2 = 1 THEN Stat(v[(n + 1) \div 2], 1)
        ELSE Stat(v[n \div 2] + v[n \div 2 + 1], 2)

PriceColumn(rows) == [i \in 1..Len(rows) |-> rows[i].Price]

\* groupby("Title"): the rows of one group, in order.
GroupRows(rows, title) == SelectSeq(rows, LAMBDA r : r.Title = title)

GroupKeys(rows) == {rows[i].Title : i \in 1..Len(rows)}

\* groupby("Title")["Price (CAD)"].agg(count, mean, min, max): one row per
\* group key.  (The order of the rows, by key, is not modelled, nor the
\* "$x.xx" rendering of lines 113-115.)
Grouped(df) ==
    { [Title |-> t,
       Count |-> PdCount(PriceColumn(GroupRows(df.rows, t))),
       Mean |-> PdMean(PriceColumn(GroupRows(df.rows, t))),
       Min |-> PdMin(PriceColumn(GroupRows(df.rows, t))),
       Max |-> PdMax(PriceColumn(GroupRows(df.rows, t)))] : t \in GroupKeys(df.rows) }

\* Lines 122-125.
Overall(df) ==
    [median |-> PdMedian(PriceColumn(df.rows)),
     mean |-> PdMean(PriceColumn(df.rows)),
     min |-> PdMin(PriceColumn(df.rows)),
     max |-> PdMax(PriceColumn(df.rows))]

\* What the page shows after lines 96-131: the warning, or the listing
\* table with the category table and the overall statistics.
NothingShown == [warning |-> FALSE, table |-> <<>>, grouped |-> <<>>, overall |-> <<>>]

\* Render without the test of combined.empty.
RenderNoEmptyCheck(df) ==
    [warning |-> FALSE, table |-> <<df.rows>>, grouped |-> <<Grouped(df)>>,
     overall |-> <<Overall(df)>>]

Render(df) ==
    IF IsEmpty(df)
    THEN [warning |-> TRUE, table |-> <<>>, grouped |-> <<>>, overall |-> <<>>]
    ELSE [warning |-> FALSE, table |-> <<df.rows>>, grouped |-> <<Grouped(df)>>,
          overall |-> <<Overall(df)>>]

\* ------------------------------------------------------------- the script

VARIABLES
    pc,        \* where the script run is: idle, fetch_ca, fetch_com, combine,
               \* render, done, or aborted by an uncaught exception
    query,     \* the text of the search box
    http,      \* the URLs of the GETs issued by this run, in order
    resp_ca,   \* what the GET to eBay.ca ended in (none yet, or one)
    resp_com,  \* what the GET to eBay.com ended in (none yet, or one)
    df_ca,     \* get_ebay_data(query, "ca")
    df_com,    \* get_ebay_data(query, "com")
    combined,  \* the combined frame
    shown,     \* what the page shows
    exc        \* the exception that ended the run, or "none"

vars == <<pc, query, http, resp_ca, resp_com, df_ca, df_com, combined, shown, exc>>

NoFrame == [columns |-> <<>>, rows |-> <<>>]

DefaultQuery == <<"2023", " ", "Silver", " ", "Maple", " ", "Leaf">>

\* The texts of the search box.
Queries == {DefaultQuery, <<>>}

\* The characters of the price texts SpecPrice enumerates.
PriceChars == {"$", ",", " ", "1", "5", ".", "n", "a"}

ExamplePrice == <<"$", "1", ",", "2", "3", "4", ".", "5", "0">>

PriceTexts == SeqsUpTo(PriceChars, MaxPriceLen) \cup {ExamplePrice}

\* The pages of one container with a title, a link and any price text.
PricePages == {Page(<<Item(<<TitleA>>, <<t>>, Href("L1"), <<DateD>>, <<>>)>>) : t \in PriceTexts}

\* The script is about to run for the first time, with the default query.
Init ==
    /\ pc = "idle"
    /\ query = DefaultQuery
    /\ http = <<>>
    /\ resp_ca = <<>>
    /\ resp_com = <<>>
    /\ df_ca = NoFrame
    /\ df_com = NoFrame
    /\ combined = NoFrame
    /\ shown = NothingShown
    /\ exc = "none"

\* A run of the script from its top (the first one, or after the user edits
\* the query or presses Search): every name is bound afresh, and line 79
\* enters the search when the button was pressed or the query is not empty.
Search ==
    /\ pc \in {"idle", "done", "aborted"}
    /\ \E q \in (IF pc = "idle" THEN {query} ELSE Queries), button \in BOOLEAN :
        /\ query' = q
        /\ pc' = IF button \/ q # <<>> THEN "fetch_ca" ELSE "done"
    /\ http' = <<>>
    /\ resp_ca' = <<>>
    /\ resp_com' = <<>>
    /\ df_ca' = NoFrame
    /\ df_com' = NoFrame
    /\ combined' = NoFrame
    /\ shown' = NothingShown
    /\ exc' = "none"

\* Line 82: get_ebay_data(query, "ca"), its one GET ending in r.
CallCa(r) ==
    LET g == GetEbayData(r)
    IN  /\ pc = "fetch_ca"
        /\ http' = Append(http, BaseUrl(query, "ca"))
        /\ resp_ca' = <<r>>
        /\ IF g.raised = "none"
           THEN /\ df_ca' = g.df
                /\ pc' = "fetch_com"
                /\ exc' = exc
           ELSE /\ df_ca' = df_ca
                /\ pc' = "aborted"
                /\ exc' = g.raised
        /\ UNCHANGED <<query, resp_com, df_com, combined, shown>>

\* Line 83: get_ebay_data(query, "com"), its one GET ending in r.
CallCom(r) ==
    LET g == GetEbayData(r)
    IN  /\ pc = "fetch_com"
        /\ http' = Append(http, BaseUrl(query, "com"))
        /\ resp_com' = <<r>>
        /\ IF g.raised = "none"
           THEN /\ df_com' = g.df
                /\ pc' = "combine"
                /\ exc' = exc
           ELSE /\ df_com' = df_com
                /\ pc' = "aborted"
                /\ exc' = g.raised
        /\ UNCHANGED <<query, resp_ca, df_ca, combined, shown>>

FetchCa ==
    /\ pc = "fetch_ca"
    /\ \E r \in Responses(Containers) : CallCa(r)

FetchCom ==
    /\ pc = "fetch_com"
    /\ \E r \in Responses(Containers) : CallCom(r)

\* Lines 86-93.
CombineStep ==
    /\ pc = "combine"
    /\ combined' = Combine(df_ca, df_com)
    /\ pc' = "render"
    /\ UNCHANGED <<query, http, resp_ca, resp_com, df_ca, df_com, shown, exc>>

\* Lines 96-131.
RenderStep ==
    /\ pc = "render"
    /\ shown' = Render(combined)
    /\ pc' = "done"
    /\ UNCHANGED <<query, http, resp_ca, resp_com, df_ca, df_com, combined, exc>>

Next == Search \/ FetchCa \/ FetchCom \/ CombineStep \/ RenderStep

Spec == Init /\ [][Next]_vars

\* The first fetch alone, over the pages of PageContainers.
FetchCaPage ==
    /\ pc = "fetch_ca"
    /\ \E r \in Responses(PageContainers) : CallCa(r)

NextPage == Search \/ FetchCaPage

SpecPage == Init /\ [][NextPage]_vars

\* The first fetch alone, on a page of one container, over every price text.
FetchCaPrice ==
    /\ pc = "fetch_ca"
    /\ \E r \in PricePages : CallCa(r)

NextPrice == Search \/ FetchCaPrice

SpecPrice == Init /\ [][NextPrice]_vars

\* ------------------------------------------------------------------ claims

GetFailed(r) == r # <<>> /\ r[1].status \in Failures
GetGavePage(r) == r # <<>> /\ r[1].status = "ok"

\* Both calls of get_ebay_data have returned.
BothReturned == pc \in {"combine", "render", "done"}

\* The run went through the search and reached its end.
SearchDone == pc = "done" /\ resp_com # <<>>

\* C1: a GET that ends in a connection error, a timeout or an error status
\* makes get_ebay_data return a frame with no rows, raising nothing: the
\* run goes on to its next step, and the rows are those of a fetched page
\* with no listing container (none).
C1_FailedGetGivesEmpty ==
    /\ (GetFailed(resp_ca) \/ resp_ca = <<Page(<<>>)>>) =>
          /\ df_ca.rows = <<>> /\ IsEmpty(df_ca)
          /\ resp_com = <<>> => (pc = "fetch_com" /\ exc = "none")
    /\ (GetFailed(resp_com) \/ resp_com = <<Page(<<>>)>>) =>
          /\ df_com.rows = <<>> /\ IsEmpty(df_com)
          /\ BothReturned /\ exc = "none"

C1_Witness ==
    /\ pc = "done"
    /\ GetFailed(resp_ca) /\ resp_ca[1].status = "timeout"
    /\ GetFailed(resp_com) /\ resp_com[1].status = "http_error"
    /\ query = <<>>

\* The (title, price, date) of a record, as the claims name it.
Identity(r) == <<r.Title, r.Price, r.Date>>

\* The records of both regions, eBay.ca first.
Concatenated == df_ca.rows \o df_com.rows

\* The places of Concatenated whose record has no earlier record of the
\* same identity.
FirstPlaces ==
    {i \in 1..Len(Concatenated) :
        \A j \in 1..(i - 1) : Identity(Concatenated[j]) # Identity(Concatenated[i])}

\* The k-th smallest element of a set of integers.
RECURSIVE Nth(_, _)
Nth(S, k) ==
    LET m == CHOOSE x \in S : \A y \in S : x <= y
    IN  IF k = 1 THEN m ELSE Nth(S \ {m}, k - 1)

\* C4: the combined result holds, in order, exactly the records of the
\* concatenation (eBay.ca, then eBay.com) that no earlier record equals in
\* (title, price, date): each kept record is the first of its identity,
\* link included, and no two kept records share an identity.
C4_CombinedIsFirstOccurrences ==
    BothReturned /\ pc # "combine" =>
        /\ Len(combined.rows) = Cardinality(FirstPlaces)
        /\ \A k \in 1..Len(combined.rows) :
              combined.rows[k] = Concatenated[Nth(FirstPlaces, k)]
        /\ \A i, j \in 1..Len(combined.rows) :
              i # j => Identity(combined.rows[i]) # Identity(combined.rows[j])

\* A record of eBay.com was dropped for a record of eBay.ca that differs
\* from it in the link alone.
C4_Witness ==
    /\ pc = "done"
    /\ \E i \in 1..Len(df_ca.rows), j \in 1..Len(df_com.rows) :
          /\ Identity(df_ca.rows[i]) = Identity(df_com.rows[j])
          /\ df_ca.rows[i].Link # df_com.rows[j].Link
          /\ \A k \in 1..Len(combined.rows) : combined.rows[k] # df_com.rows[j]
    /\ Len(combined.rows) >= 2

\* C5: after a search, the warning is shown exactly when the combined
\* frame has no rows, which is exactly when both regions gave no rows; with
\* the warning no category table and no overall statistics are computed,
\* and without it both are.
C5_EmptySignal ==
    SearchDone =>
        /\ (combined.rows = <<>>) <=> (df_ca.rows = <<>> /\ df_com.rows = <<>>)
        /\ shown.warning <=> (combined.rows = <<>>)
        /\ shown.warning => (shown.table = <<>> /\ shown.grouped = <<>> /\ shown.overall = <<>>)
        /\ ~shown.warning =>
              /\ shown.table = <<combined.rows>>
              /\ Len(shown.grouped) = 1 /\ shown.grouped[1] # {}
              /\ Len(shown.overall) = 1

\* Both regions came back empty, one by a failed GET and one by a page
\* without listings.
C5_Witness ==
    /\ SearchDone
    /\ GetFailed(resp_ca)
    /\ resp_com = <<Page(<<>>)>>
    /\ shown.warning

\* What aggregating the one frame b gives.
AggregateAlone(b) == Render(DropDuplicates(b))

\* C8: when the GET of one region failed and the other region gave a frame
\* B with rows, the search shows the listing table, the category table and
\* the overall statistics of B alone, whichever region failed.
C8_OneRegionFailed ==
    SearchDone =>
        /\ (GetFailed(resp_ca) /\ df_com.rows # <<>>) =>
              /\ combined.rows = DropDuplicates(df_com).rows
              /\ shown = AggregateAlone(df_com)
              /\ ~shown.warning
        /\ (GetFailed(resp_com) /\ df_ca.rows # <<>>) =>
              /\ combined.rows = DropDuplicates(df_ca).rows
              /\ shown = AggregateAlone(df_ca)
              /\ ~shown.warning

\* eBay.ca failed and eBay.com gave two records of different titles.
C8_Witness ==
    /\ SearchDone
    /\ GetFailed(resp_ca)
    /\ Len(df_com.rows) = 2
    /\ df_com.rows[1].Title # df_com.rows[2].Title
    /\ Len(shown.overall) = 1

\* The price text of a container yields a number: a first token is left
\* after the symbols are removed, and float accepts it.
Parseable(text) == PriceTokens(text) # <<>> /\ PyFloat(PriceTokens(text)[1]).ok

\* A container with a title, a price and a link element, and a title that
\* holds neither placeholder.
IsListing(item) ==
    /\ item.title # <<>> /\ item.price # <<>> /\ item.link # <<>>
    /\ ~Contains(item.title[1], "Shop on eBay")
    /\ ~Contains(item.title[1], "New Listing")

WellFormed(item) == IsListing(item) /\ Parseable(item.price[1])

ItemsCa == resp_ca[1].items

\* C2: a listing whose price text cannot be parsed costs the page that one
\* candidate only: on a page whose links all carry an href, the call
\* returns normally with one record per listing whose price text parses.
C2_UnparseablePriceDropsOne ==
    (GetGavePage(resp_ca)
        /\ \A i \in 1..Len(ItemsCa) : ItemsCa[i].link # <<>> => ItemsCa[i].link[1].href # <<>>) =>
        /\ exc = "none"
        /\ pc = "fetch_com"
        /\ Len(df_ca.rows) = Cardinality({i \in 1..Len(ItemsCa) : WellFormed(ItemsCa[i])})

\* The places of the well-formed containers of the page.
WellFormedPlaces == {i \in 1..Len(ItemsCa) : WellFormed(ItemsCa[i])}

\* C3: a fetched page gives exactly one record per well-formed container
\* and none for any other, in the order of the containers: the k-th record
\* has the title and the link of the k-th well-formed container.
C3_OneRecordPerWellFormed ==
    GetGavePage(resp_ca) =>
        /\ exc = "none"
        /\ Len(df_ca.rows) = Cardinality(WellFormedPlaces)
        /\ \A k \in 1..Len(df_ca.rows) :
              LET item == ItemsCa[Nth(WellFormedPlaces, k)]
              IN  /\ df_ca.rows[k].Title = StrStrip(item.title[1])
                  /\ <<df_ca.rows[k].Link>> = item.link[1].href

\* The finite prices of the records of rows.
FinitePrices(rows) == {i \in 1..Len(rows) : ~rows[i].Price.nan}

RECURSIVE SumPrices(_)
SumPrices(rows) == IF rows = <<>> THEN 0 ELSE Head(rows).Price.v + SumPrices(Tail(rows))

\* m is the exact mean, and lo and hi the least and the greatest, of the
\* prices of rows, every one of them a number.
StatsOfAll(rows, m, lo, hi) ==
    /\ \A i \in 1..Len(rows) : ~rows[i].Price.nan
    /\ ~m.nan /\ m.num * Len(rows) = SumPrices(rows) * m.den
    /\ ~lo.nan /\ lo.den = 1 /\ \E i \in 1..Len(rows) : rows[i].Price.v = lo.num
    /\ \A i \in 1..Len(rows) : lo.num <= rows[i].Price.v
    /\ ~hi.nan /\ hi.den = 1 /\ \E i \in 1..Len(rows) : rows[i].Price.v = hi.num
    /\ \A i \in 1..Len(rows) : hi.num >= rows[i].Price.v

RECURSIVE SumCounts(_)
SumCounts(G) ==
    IF G = {} THEN 0
    ELSE LET g == CHOOSE x \in G : TRUE IN g.Count + SumCounts(G \ {g})

\* C6: the category table has one row per distinct title of the combined
\* result; a row's count is the number of records with its title and its
\* mean, minimum and maximum are those of their prices; the counts add up
\* to the number of records.
C6_CategoryStats ==
    (SearchDone /\ shown.grouped # <<>>) =>
        LET G == shown.grouped[1]
            rows == combined.rows
        IN  /\ {g.Title : g \in G} = {rows[i].Title : i \in 1..Len(rows)}
            /\ Cardinality(G) = Cardinality({g.Title : g \in G})
            /\ \A g \in G :
                  LET members == SelectSeq(rows, LAMBDA r : r.Title = g.Title)
                  IN  /\ g.Count = Len(members)
                      /\ StatsOfAll(members, g.Mean, g.Min, g.Max)
            /\ SumCounts(G) = Len(rows)

\* a/b <= c/d for fractions of positive denominators.
FracLeq(x, y) == x.num * y.den <= y.num * x.den

\* The number of records of rows priced below v, and at most v.
Below(rows, v) == Cardinality({i \in 1..Len(rows) : rows[i].Price.v < v})
AtMost(rows, v) == Cardinality({i \in 1..Len(rows) : rows[i].Price.v <= v})

\* v is the price of rank k (1 the cheapest) among the records of rows.
HasRank(rows, v, k) == Below(rows, v) < k /\ k <= AtMost(rows, v)

\* C7: the overall statistics are those of all the records of the combined
\* result: least, greatest and mean price, and as median the price of middle
\* rank, or the half-sum of the two prices of middle rank; so the median
\* and the mean lie between the minimum and the maximum.
C7_OverallStats ==
    (SearchDone /\ shown.overall # <<>>) =>
        LET o == shown.overall[1]
            rows == combined.rows
            n == Len(rows)
        IN  /\ StatsOfAll(rows, o.mean, o.min, o.max)
            /\ ~o.median.nan
            /\ n % 2 = 1 =>
                  \E a \in {rows[i].Price.v : i \in 1..n} :
                      /\ HasRank(rows, a, (n + 1) \div 2)
                      /\ o.median.num = a * o.median.den
            /\ n % 2 = 0 =>
                  \E a, b \in {rows[i].Price.v : i \in 1..n} :
                      /\ HasRank(rows, a, n \div 2) /\ HasRank(rows, b, n \div 2 + 1)
                      /\ 2 * o.median.num = (a + b) * o.median.den
            /\ FracLeq(o.min, o.median) /\ FracLeq(o.median, o.max)
            /\ FracLeq(o.min, o.mean) /\ FracLeq(o.mean, o.max)

\* C9: a run that enters the search issues exactly two GETs, one per call
\* of get_ebay_data: first to eBay.ca and then, whatever the first ended
\* in, to eBay.com, both for the query of this run.
C9_TwoGetsPerSearch ==
    /\ Len(http) <= 2
    /\ Len(http) >= 1 => http[1] = BaseUrl(query, "ca")
    /\ Len(http) = 2 => http[2] = BaseUrl(query, "com")
    /\ Len(http) = Len(resp_ca) + Len(resp_com)
    /\ (pc \in {"done", "aborted"} /\ http # <<>>) => Len(http) = 2

\* The price text of the one container of the page fetched from eBay.ca.
PriceText == ItemsCa[1].price[1]

\* The text without its currency symbols and group separators.
Cleaned(text) == SelectSeq(text, LAMBDA c : c \notin {"$", ","})

\* The first whitespace-delimited token of s: from its first character that
\* is not a space up to the next space; empty when there is none.
FirstToken(s) ==
    LET from == {i \in 1..Len(s) : s[i] # " "}
        a == CHOOSE i \in from : \A j \in from : i <= j
        upto == {i \in a..Len(s) : s[i] = " "}
        b == IF upto = {} THEN Len(s) + 1 ELSE CHOOSE i \in upto : \A j \in upto : i <= j
    IN  IF from = {} THEN <<>> ELSE SubSeq(s, a, b - 1)

\* tok is a decimal numeral: digits with at most one point, a digit at least.
IsDecimal(tok) ==
    /\ \A i \in 1..Len(tok) : tok[i] \in Digits \cup {"."}
    /\ Cardinality({i \in 1..Len(tok) : tok[i] = "."}) <= 1
    /\ \E i \in 1..Len(tok) : tok[i] \in Digits

RECURSIVE SumOver(_, _)
SumOver(S, f) ==
    IF S = {} THEN 0
    ELSE LET x == CHOOSE y \in S : TRUE IN f[x] + SumOver(S \ {x}, f)

\* The number a decimal numeral denotes, in units of 1/Scale: the sum of its
\* digits, each weighted by its place.
Denoted(tok) ==
    LET points == {i \in 1..Len(tok) : tok[i] = "."}
        d == IF points = {} THEN Len(tok) + 1 ELSE CHOOSE i \in points : TRUE
        places == (1..Len(tok)) \ points
        weight == [i \in places |->
                     IF i < d THEN DigitVal(tok[i]) * Pow10(d - 1 - i) * Scale
                     ELSE (DigitVal(tok[i]) * Scale) \div Pow10(i - d)]
    IN  SumOver(places, weight)

\* C10: the price of the emitted record is the number denoted by the first
\* whitespace-delimited token of the price text without its "$" and ","
\* (float of that token); a text with "$" and "," whose token is a decimal
\* numeral gives a record with that number, "$1,234.50" gives 1234.50, and
\* what follows the first token changes nothing.
C10_PriceOfFirstToken ==
    GetGavePage(resp_ca) =>
        LET tok == FirstToken(Cleaned(PriceText))
        IN  /\ df_ca.rows # <<>> =>
                  /\ Len(df_ca.rows) = 1
                  /\ tok # <<>>
                  /\ df_ca.rows[1].Price = PyFloat(tok).val
            /\ IsDecimal(tok) =>
                  /\ exc = "none"
                  /\ Len(df_ca.rows) = 1
                  /\ df_ca.rows[1].Price = Num(Denoted(tok))
            /\ PriceText = ExamplePrice =>
                  /\ Len(df_ca.rows) = 1
                  /\ df_ca.rows[1].Price = Num(1234 * Scale + Scale \div 2)

\* "$1,234.50" was fetched and gave its record.
C10_Witness ==
    /\ GetGavePage(resp_ca)
    /\ PriceText = ExamplePrice
    /\ Len(df_ca.rows) = 1
    /\ pc = "fetch_com"

====
